---- MODULE Spec2Model ----
(***************************************************************************)
(* One ledger node of simple_crypto (blockchain.py, network.py, wallet.py, *)
(* util.py, block.py) and the requests its peers and users send to it.     *)
(*                                                                         *)
(* Spec, SpecWallet and SpecValidChain serve one request at a time.        *)
(* SpecThreads lets the request threads of the Flask server interleave     *)
(* inside add_block.  SpecNetwork is the node and a second node that pull  *)
(* each other's chains.  SpecDifficulty calls adjust_difficulty on chains   *)
(* of several ages.  SpecBalance adds the wallet's balance request to the  *)
(* requests of Spec.  SpecMempool interleaves the threads of /mine with    *)
(* those of the two transaction handlers.                                  *)
(*                                                                         *)
(* Reading of the source.  The list literals of the source text are        *)
(* missing ("self.chain = ", "chain_list" for the first block,             *)
(* ".get('transactions',)"); they are read as [], [0] and [].  network.py  *)
(* uses time, Block, verify_signature and create_signable_transaction_data *)
(* without importing them; the names are read as the definitions of        *)
(* time.time, block.py and util.py.                                        *)
(*                                                                         *)
(* Abstractions.  A SHA-256 header digest is a number below HashSpace, the *)
(* targets are scaled with it.  ECDSA is ideal: a signature names the key  *)
(* that made it and the digest it was made over, and the digest of a       *)
(* transaction preimage is its serialization.  time() is a wall clock: it  *)
(* does not decrease inside one request.                                   *)
(*                                                                         *)
(* Records list their fields in the order in which the module first names  *)
(* them, the order in which TLC keeps the fields of a record.              *)
(***************************************************************************)
EXTENDS Integers, Sequences, FiniteSets, TLC

(* ------------------------------ bounds --------------------------------- *)
HashSpace == 64
MaxTime == 1
MaxProof == 2
MaxChain == 2
MaxPool == 2
MaxAmount == 2
MaxThreads == 2

(* --------------------------- program constants ------------------------- *)
TARGET_BLOCK_TIME == 15
RECALCULATION_INTERVAL == 5
INITIAL_TARGET == 16
MAX_TARGET == 16
BOUND_DIVISOR == 4

Times == 0..MaxTime
Amounts == 1..MaxAmount

(* ------------------------------- keys ---------------------------------- *)
\* PEM strings of two wallets; "0" is the coinbase sender; "notpem" is a
\* string load_pem_public_key cannot parse.
Wallets == {"PEM_A", "PEM_B"}
node_identifier == "PEM_A"
Senders == Wallets \cup {"0", "notpem"}
Peers == {"p1:5001", "p2:5002"}

required_fields == {"sender_public_key", "recipient", "amount", "timestamp", "signature"}

(* --------------------------- util.py ----------------------------------- *)
create_signable_transaction_data(sender_pub_key_pem_str, recipient, amount, timestamp) ==
    [recipient |-> recipient, amount |-> amount, timestamp |-> timestamp,
     sender_public_key |-> sender_pub_key_pem_str]

\* a serialization that leaves the timestamp out
dumps_transaction_without_timestamp(data) ==
    <<data.amount, data.recipient, data.sender_public_key>>

\* json.dumps(data, sort_keys=True): the values in the order of the sorted
\* keys amount, recipient, sender_public_key, timestamp.
dumps_transaction(data) ==
    <<data.amount, data.recipient, data.sender_public_key, data.timestamp>>

\* hashes.Hash(SHA256) over the message bytes; collision free.
Digest(message_bytes) == [sha256 |-> message_bytes]

\* private_key.sign(digest, ECDSA(Prehashed)) and hexlify: a hex string that
\* names the key pair and the digest.
SignatureHex(pem, digest) == [kind |-> "hex", by |-> pem, over |-> digest]
\* the literal "mining_reward", and one more string that is not hexadecimal
MiningRewardSignature == [kind |-> "mining_reward", by |-> "0", over |-> Digest(<<>>)]
GarbageSignature == [kind |-> "nothex", by |-> "0", over |-> Digest(<<>>)]

\* a verification that checks the signer and not the signed digest
verify_signature_of_signer_only(sender_public_key_pem_str, signature_hex, transaction_data_to_verify) ==
    /\ sender_public_key_pem_str \in Wallets
    /\ signature_hex.kind = "hex"
    /\ signature_hex.by = sender_public_key_pem_str

verify_signature(sender_public_key_pem_str, signature_hex, transaction_data_to_verify) ==
    /\ sender_public_key_pem_str \in Wallets          \* load_pem_public_key succeeds
    /\ signature_hex.kind = "hex"                     \* unhexlify succeeds
    /\ signature_hex.by = sender_public_key_pem_str   \* public_key.verify
    /\ signature_hex.over = Digest(dumps_transaction(transaction_data_to_verify))

(* --------------------------- wallet.py --------------------------------- *)
\* Wallet.sign_transaction_data of the wallet whose public key is pem, at
\* wall time timestamp.
sign_transaction_data(pem, recipient, amount, timestamp) ==
    LET transaction_data_to_sign ==
            create_signable_transaction_data(pem, recipient, amount, timestamp)
    IN  [recipient |-> transaction_data_to_sign.recipient,
         amount |-> transaction_data_to_sign.amount,
         timestamp |-> transaction_data_to_sign.timestamp,
         sender_public_key |-> transaction_data_to_sign.sender_public_key,
         signature |-> SignatureHex(pem, Digest(dumps_transaction(transaction_data_to_sign))),
         keys |-> required_fields]

(* ------------------------- block.py / hashing -------------------------- *)
\* previous_hash of the genesis block, the string "0" (never a digest)
ZeroHash == -1

\* sha256(json.dumps(header, sort_keys=True)) read as an integer: a mixing of
\* the five header values (sorted keys index, previous_hash, proof, target,
\* timestamp) into 0..HashSpace-1.  The digests are multiples of 4, and
\* targets are finer than digests, so that every target from 1 on has a
\* digest under it.
sha256_int(index, previous_hash, proof, target, timestamp) ==
    (4 * (3 * index + 7 * (previous_hash \div 4 + 1) + proof
          + 11 * (target \div 4) + 5 * timestamp)) % HashSpace

hash(block_dict) ==
    sha256_int(block_dict.index, block_dict.previous_hash, block_dict.proof,
               block_dict.target, block_dict.timestamp)

\* Block(...).to_dict(): the hash field is computed from the header
Block(index, transactions, timestamp, previous_hash, proof, target) ==
    [timestamp |-> timestamp, index |-> index, previous_hash |-> previous_hash,
     proof |-> proof, target |-> target,
     hash |-> sha256_int(index, previous_hash, proof, target, timestamp),
     transactions |-> transactions]

is_valid_block_proof(block_dict) ==
    sha256_int(block_dict.index, block_dict.previous_hash, block_dict.proof,
               block_dict.target, block_dict.timestamp) < block_dict.target

(* ------------------------------ state ---------------------------------- *)
VARIABLES
    chain,                      \* Blockchain.chain, a sequence of block dicts
    unconfirmed_transactions,   \* Blockchain.unconfirmed_transactions
    nodes,                      \* Blockchain.nodes
    current_target,             \* Blockchain.current_target
    response,                   \* the answer to the last request
    sent,                       \* the deliveries the last request attempted
    sweep,                      \* what the peers answered to the last /nodes/resolve,
                                \* in the order the peers were asked
    in_flight,                  \* the add_block calls of request threads that have
                                \* made their checks and not yet appended
    peer                        \* chain and current_target of a second node that
                                \* runs the same program

vars == <<chain, unconfirmed_transactions, nodes, current_target, response, sent, sweep,
          in_flight, peer>>

last_block == chain[Len(chain)]

Response(op, status, message) == [op |-> op, status |-> status, message |-> message]
NoDelivery == [kind |-> "none", to |-> <<>>, failed |-> {}]

\* a second node before its Blockchain is constructed
NotStarted == [chain |-> <<>>, current_target |-> INITIAL_TARGET]

create_genesis_block(timestamp) ==
    Block(0, <<>>, timestamp, ZeroHash, 1, INITIAL_TARGET)

Init ==
    /\ \E t \in Times : chain = <<create_genesis_block(t)>>
    /\ unconfirmed_transactions = <<>>
    /\ nodes = {}
    /\ current_target = INITIAL_TARGET
    /\ response = Response("start", 0, "")
    /\ sent = NoDelivery
    /\ sweep = <<>>
    /\ in_flight = {}
    /\ peer = NotStarted

(* ------------------------ transaction inputs --------------------------- *)
\* the transfers wallets sign, at wall time 0
Transfers == {<<"PEM_A", "PEM_B", 1>>, <<"PEM_B", "PEM_A", 2>>}
SignedTxs == {sign_transaction_data(tr[1], tr[2], tr[3], 0) : tr \in Transfers}

\* a signed transaction with one field changed after signing
AlterOne(tx) ==
    {[tx EXCEPT !.sender_public_key = s] : s \in Senders \ {tx.sender_public_key}}
    \cup {[tx EXCEPT !.recipient = r] : r \in Wallets \ {tx.recipient}}
    \cup {[tx EXCEPT !.amount = a] : a \in Amounts \ {tx.amount}}
    \cup {[tx EXCEPT !.timestamp = t] : t \in Times \ {tx.timestamp}}
\* a transaction dict that lacks one key
DropOne(tx) == {[tx EXCEPT !.keys = required_fields \ {k}] : k \in required_fields}
\* a signed transaction whose signature is replaced
Resign(tx) ==
    {[tx EXCEPT !.signature = s] :
        s \in {MiningRewardSignature, GarbageSignature}
              \cup {other.signature : other \in SignedTxs \ {tx}}}

\* the transaction the defective inputs are made from
FirstTx == sign_transaction_data("PEM_A", "PEM_B", 1, 0)

TxInputs == SignedTxs \cup AlterOne(FirstTx) \cup DropOne(FirstTx) \cup Resign(FirstTx)

(* ---------------------- Blockchain.add_new_transaction ----------------- *)
\* TRUE iff the transaction is appended to the pool
add_new_transaction_ok(transaction) ==
    /\ required_fields \subseteq transaction.keys
    /\ verify_signature(transaction.sender_public_key, transaction.signature,
            create_signable_transaction_data(transaction.sender_public_key,
                transaction.recipient, transaction.amount, transaction.timestamp))

add_new_transaction(transaction) ==
    IF add_new_transaction_ok(transaction)
    THEN Append(unconfirmed_transactions, transaction)
    ELSE unconfirmed_transactions

(* ----------------------------- broadcast ------------------------------- *)
\* for node in nodes: try: requests.post(...) except RequestException: print.
\* order is the iteration order of the set, down the peers whose post raises;
\* the result is the sequence of peers a post was attempted to, one entry
\* for every requests.post.
RECURSIVE broadcast(_, _)
broadcast(order, down) ==
    IF order = <<>> THEN <<>>
    ELSE <<Head(order)>> \o broadcast(Tail(order), down)

broadcast_transaction(order, down) ==
    [kind |-> "transaction", to |-> broadcast(order, down), failed |-> down]
broadcast_block(order, down) ==
    [kind |-> "block", to |-> broadcast(order, down), failed |-> down]

Orders(S) == {o \in [1..Cardinality(S) -> S] : \A i, j \in 1..Cardinality(S) : i # j => o[i] # o[j]}

(* ------------------------ /transactions/new ---------------------------- *)
new_transaction_api(values) ==
    /\ Len(unconfirmed_transactions) < MaxPool
    /\ IF ~ (required_fields \subseteq values.keys)
       THEN /\ response' = Response("new_transaction", 400, "Missing values in transaction data")
            /\ sent' = NoDelivery
            /\ UNCHANGED unconfirmed_transactions
       ELSE /\ unconfirmed_transactions' = add_new_transaction(values)
            /\ IF add_new_transaction_ok(values)
               THEN /\ \E order \in Orders(nodes), down \in SUBSET nodes :
                            sent' = broadcast_transaction(order, down)
                    /\ response' = Response("new_transaction", 201,
                                            "Transaction added to pool and broadcasted.")
               ELSE /\ sent' = NoDelivery
                    /\ response' = Response("new_transaction", 400,
                                            "Transaction failed verification and was rejected.")
    /\ sweep' = <<>>
    /\ UNCHANGED <<chain, nodes, current_target, in_flight, peer>>

(* ----------------------- /transactions/receive ------------------------- *)
\* a variant that forwards what it accepted to the node's own peers
receive_transaction_forwarding(values) ==
    /\ Len(unconfirmed_transactions) < MaxPool
    /\ IF ~ (required_fields \subseteq values.keys)
       THEN /\ response' = Response("receive_transaction", 400,
                                    "Missing values in received transaction data")
            /\ sent' = NoDelivery
            /\ UNCHANGED unconfirmed_transactions
       ELSE /\ unconfirmed_transactions' = add_new_transaction(values)
            /\ IF add_new_transaction_ok(values)
               THEN /\ \E order \in Orders(nodes), down \in SUBSET nodes :
                            sent' = broadcast_transaction(order, down)
                    /\ response' = Response("receive_transaction", 201,
                                            "Transaction received and added to pool.")
               ELSE /\ sent' = NoDelivery
                    /\ response' = Response("receive_transaction", 400,
                                            "Received transaction failed verification.")
    /\ sweep' = <<>>
    /\ UNCHANGED <<chain, nodes, current_target, in_flight, peer>>

receive_transaction(values) ==
    /\ Len(unconfirmed_transactions) < MaxPool
    /\ IF ~ (required_fields \subseteq values.keys)
       THEN /\ response' = Response("receive_transaction", 400,
                                    "Missing values in received transaction data")
            /\ UNCHANGED unconfirmed_transactions
       ELSE /\ unconfirmed_transactions' = add_new_transaction(values)
            /\ IF add_new_transaction_ok(values)
               THEN response' = Response("receive_transaction", 201,
                                         "Transaction received and added to pool.")
               ELSE response' = Response("receive_transaction", 400,
                                         "Received transaction failed verification.")
    /\ sent' = NoDelivery
    /\ sweep' = <<>>
    /\ UNCHANGED <<chain, nodes, current_target, in_flight, peer>>

(* --------------------------- /nodes/register --------------------------- *)
\* add_node keeps the netloc of scheme://host:port and the path of host:port
register_nodes(nodes_list) ==
    /\ nodes' = nodes \cup nodes_list
    /\ response' = Response("register_nodes", 201, "New nodes have been added")
    /\ sent' = NoDelivery
    /\ sweep' = <<>>
    /\ UNCHANGED <<chain, unconfirmed_transactions, current_target, in_flight, peer>>

(* ------------------------- Blockchain.add_block ------------------------ *)
\* TRUE iff add_block appends block_dict
add_block_ok(block_dict) ==
    /\ hash(last_block) = block_dict.previous_hash
    /\ is_valid_block_proof(block_dict)

\* a variant that puts the new block in the place of the tip
add_block_over_tip(block_dict) ==
    IF add_block_ok(block_dict) THEN [chain EXCEPT ![Len(chain)] = block_dict] ELSE chain

add_block(block_dict) ==
    IF add_block_ok(block_dict) THEN Append(chain, block_dict) ELSE chain

(* ----------------------- Blockchain.proof_of_work ---------------------- *)
\* The loop from candidate proof on, the clock being at least t: every
\* attempt samples time(); the results are the pairs <<proof, time of the
\* winning attempt>> the loop can return.  Attempts beyond MaxProof are cut.
RECURSIVE proof_of_work_from(_, _, _)
proof_of_work_from(last_block_dict, proof, t) ==
    UNION { IF sha256_int(last_block_dict.index + 1, hash(last_block_dict), proof,
                          current_target, tw) < current_target
            THEN {<<proof, tw>>}
            ELSE IF proof = MaxProof THEN {}
                 ELSE proof_of_work_from(last_block_dict, proof + 1, tw)
          : tw \in t..MaxTime }

proof_of_work(last_block_dict) == proof_of_work_from(last_block_dict, 0, 0)

(* ------------------------------- /mine --------------------------------- *)
reward_transaction(timestamp) ==
    [recipient |-> node_identifier, amount |-> 1, timestamp |-> timestamp,
     sender_public_key |-> "0", signature |-> MiningRewardSignature, keys |-> required_fields]

\* a variant that puts the reward before the pending transactions
new_block_reward_first(proof, tr, tb) ==
    Block(last_block.index + 1, <<reward_transaction(tr)>> \o unconfirmed_transactions, tb,
          hash(last_block), proof, current_target)

\* the block /mine builds: proof is what proof_of_work returned, tr and tb
\* are the readings of time() for the reward and for the block
new_block(proof, tr, tb) ==
    Block(last_block.index + 1, unconfirmed_transactions \o <<reward_transaction(tr)>>, tb,
          hash(last_block), proof, current_target)

\* a variant that clears the pool and broadcasts before it looks at what
\* add_block returned
mine_clearing_first(found, tr, tb) ==
    /\ Len(chain) < MaxChain
    /\ found \in proof_of_work(last_block)
    /\ found[2] <= tr /\ tr <= tb
    /\ unconfirmed_transactions' = <<>>
    /\ \E order \in Orders(nodes), down \in SUBSET nodes :
            sent' = broadcast_block(order, down)
    /\ chain' = add_block(new_block(found[1], tr, tb))
    /\ IF ~ add_block_ok(new_block(found[1], tr, tb))
       THEN response' = Response("mine", 500, "Error adding mined block locally")
       ELSE response' = Response("mine", 200, "New Block Forged")
    /\ sweep' = <<>>
    /\ UNCHANGED <<nodes, current_target, in_flight, peer>>

\* found = <<proof, time of the winning attempt>>
mine_request(found, tr, tb) ==
    /\ found \in proof_of_work(last_block)
    /\ found[2] <= tr /\ tr <= tb
    /\ chain' = add_block(new_block(found[1], tr, tb))
    /\ IF ~ add_block_ok(new_block(found[1], tr, tb))
       THEN /\ response' = Response("mine", 500, "Error adding mined block locally")
            /\ sent' = NoDelivery
            /\ UNCHANGED unconfirmed_transactions
       ELSE /\ unconfirmed_transactions' = <<>>
            /\ \E order \in Orders(nodes), down \in SUBSET nodes :
                    sent' = broadcast_block(order, down)
            /\ response' = Response("mine", 200, "New Block Forged")
    /\ sweep' = <<>>
    /\ UNCHANGED <<nodes, current_target, in_flight, peer>>

\* /mine while the chain is below the bound
mine(found, tr, tb) ==
    /\ Len(chain) < MaxChain
    /\ mine_request(found, tr, tb)

(* ---------------------------- block inputs ----------------------------- *)
\* a coinbase of a peer, carrying the signature sig
Coinbase(recipient, sig) ==
    [recipient |-> recipient, amount |-> 1, timestamp |-> 0,
     sender_public_key |-> "0", signature |-> sig, keys |-> required_fields]
PeerCoinbase == Coinbase("PEM_B", MiningRewardSignature)

\* the least nonce that puts the header under target (a peer's search)
PeerProof(index, previous_hash, target, timestamp) ==
    CHOOSE p \in 0..(HashSpace - 1) :
        /\ sha256_int(index, previous_hash, p, target, timestamp) < target
        /\ \A q \in 0..(p - 1) : ~ (sha256_int(index, previous_hash, q, target, timestamp) < target)

\* a block a peer mined on top of tip
PeerBlock(tip, transactions, timestamp, target) ==
    Block(tip.index + 1, transactions, timestamp, hash(tip),
          PeerProof(tip.index + 1, hash(tip), target, timestamp), target)

GoodTxLists == {<<PeerCoinbase>>, <<FirstTx, PeerCoinbase>>}
BadTxLists ==
    {<<tx, PeerCoinbase>> : tx \in AlterOne(FirstTx) \cup DropOne(FirstTx)}
    \cup {<<Coinbase("PEM_B", FirstTx.signature)>>}

\* b with a nonce that leaves its header at or above its target
SpoilProof(b) ==
    [b EXCEPT !.proof = CHOOSE p \in 0..(HashSpace - 1) :
        ~ (sha256_int(b.index, b.previous_hash, p, b.target, b.timestamp) < b.target)]

\* blocks mined on tip, and one of them with one value changed afterwards
GoodBlocks(tip) == {PeerBlock(tip, txs, 0, MAX_TARGET) : txs \in GoodTxLists}
OneDefect(b) ==
    {[b EXCEPT !.index = i] : i \in {b.index - 1, b.index + 1}}
    \cup {[b EXCEPT !.previous_hash = h] : h \in {ZeroHash, (b.previous_hash + 1) % HashSpace}}
    \cup {SpoilProof(b), [b EXCEPT !.target = 3 * MAX_TARGET],
          [b EXCEPT !.hash = (b.hash + 1) % HashSpace]}
    \cup {[b EXCEPT !.transactions = txs] : txs \in BadTxLists}
BlockInputs(tip) ==
    GoodBlocks(tip) \cup OneDefect(PeerBlock(tip, <<PeerCoinbase>>, 0, MAX_TARGET))

(* --------------------------- /blocks/receive --------------------------- *)
\* the loop over the block's transactions: "ok", or the answer the first
\* offending transaction makes the handler return
RECURSIVE check_transactions(_)
check_transactions(transactions) ==
    IF transactions = <<>> THEN "ok"
    ELSE LET tx == Head(transactions)
         IN  IF "sender_public_key" \in tx.keys /\ tx.sender_public_key = "0"
             THEN check_transactions(Tail(transactions))
             ELSE IF ~ (required_fields \subseteq tx.keys)
             THEN "Received block contains invalid transaction (missing fields)"
             ELSE IF ~ verify_signature(tx.sender_public_key, tx.signature,
                          create_signable_transaction_data(tx.sender_public_key,
                              tx.recipient, tx.amount, tx.timestamp))
             THEN "Received block contains invalid transaction signature"
             ELSE check_transactions(Tail(transactions))

\* a validation that does not look at the transactions
receive_block_verdict_without_transactions(block_dict) ==
    IF block_dict.index # last_block.index + 1
    THEN "Received block has incorrect index"
    ELSE IF block_dict.previous_hash # hash(last_block)
    THEN "Received block does not chain to local chain head"
    ELSE IF ~ is_valid_block_proof(block_dict)
    THEN "Received block proof is invalid"
    ELSE "ok"

\* the validation of the handler: "ok", or the text of the 400 answer
receive_block_verdict(block_dict) ==
    LET last_local_block == last_block
    IN  IF block_dict.index # last_local_block.index + 1
        THEN "Received block has incorrect index"
        ELSE IF block_dict.previous_hash # hash(last_local_block)
        THEN "Received block does not chain to local chain head"
        ELSE IF ~ is_valid_block_proof(block_dict)
        THEN "Received block proof is invalid"
        ELSE check_transactions(block_dict.transactions)

\* {tx.get('signature') for tx in transactions if tx.get('signature')}
confirmed_tx_signatures(transactions) ==
    {transactions[i].signature : i \in {j \in 1..Len(transactions) :
                                           "signature" \in transactions[j].keys}}

IsPending(tx, block_dict) == tx.signature \notin confirmed_tx_signatures(block_dict.transactions)

\* a pruning that does not wait for the block to be added
remove_confirmed_unconditionally(block_dict, added) ==
    SelectSeq(unconfirmed_transactions, LAMBDA tx : IsPending(tx, block_dict))

\* a pruning that empties the pool, as /mine does
remove_confirmed_by_clearing(block_dict, added) ==
    IF added THEN <<>> ELSE unconfirmed_transactions

\* the pool after the handler: pruned only "if added"
remove_confirmed(block_dict, added) ==
    IF added
    THEN SelectSeq(unconfirmed_transactions, LAMBDA tx : IsPending(tx, block_dict))
    ELSE unconfirmed_transactions

receive_block(block_dict) ==
    /\ Len(chain) < MaxChain
    /\ LET verdict == receive_block_verdict(block_dict)
           added == verdict = "ok" /\ add_block_ok(block_dict)
       IN  /\ chain' = IF verdict = "ok" THEN add_block(block_dict) ELSE chain
           /\ unconfirmed_transactions' = remove_confirmed(block_dict, added)
           /\ response' = IF verdict # "ok" THEN Response("receive_block", 400, verdict)
                          ELSE IF added
                          THEN Response("receive_block", 201, "Block received and added")
                          ELSE Response("receive_block", 500,
                                        "Error adding received block locally after validation")
    /\ sent' = NoDelivery
    /\ sweep' = <<>>
    /\ UNCHANGED <<nodes, current_target, in_flight, peer>>

(* ------------------------ Blockchain.valid_chain ----------------------- *)
\* the loop over the transactions of one block of a candidate chain
RECURSIVE valid_transactions(_)
valid_transactions(transactions) ==
    IF transactions = <<>> THEN TRUE
    ELSE LET tx == Head(transactions)
         IN  IF "sender_public_key" \in tx.keys /\ tx.sender_public_key = "0"
             THEN valid_transactions(Tail(transactions))
             ELSE IF ~ (required_fields \subseteq tx.keys) THEN FALSE
             ELSE IF ~ verify_signature(tx.sender_public_key, tx.signature,
                          create_signable_transaction_data(tx.sender_public_key,
                              tx.recipient, tx.amount, tx.timestamp))
             THEN FALSE
             ELSE valid_transactions(Tail(transactions))

\* the while loop, current_index being the 0-based index of the source
RECURSIVE valid_chain_from(_, _)
valid_chain_from(chain_list, current_index) ==
    IF ~ (current_index < Len(chain_list)) THEN TRUE
    ELSE LET block_dict == chain_list[current_index + 1]
             last_block_dict == chain_list[current_index]
         IN  IF block_dict.previous_hash # hash(last_block_dict) THEN FALSE
             ELSE IF ~ is_valid_block_proof(block_dict) THEN FALSE
             ELSE IF ~ valid_transactions(block_dict.transactions) THEN FALSE
             ELSE valid_chain_from(chain_list, current_index + 1)

\* a validation that does not check the proof of the first block
valid_chain_without_genesis_proof(chain_list) ==
    IF chain_list = <<>> THEN FALSE
    ELSE IF chain_list[1].index # 0 \/ chain_list[1].previous_hash # ZeroHash THEN FALSE
    ELSE valid_chain_from(chain_list, 1)

\* a validation that does not look at the index and the previous_hash of
\* the first block
valid_chain_without_genesis_fields(chain_list) ==
    IF chain_list = <<>> THEN FALSE
    ELSE IF ~ is_valid_block_proof(chain_list[1]) THEN FALSE
    ELSE valid_chain_from(chain_list, 1)

valid_chain(chain_list) ==
    IF chain_list = <<>> THEN FALSE
    ELSE IF chain_list[1].index # 0 \/ chain_list[1].previous_hash # ZeroHash THEN FALSE
    ELSE IF ~ is_valid_block_proof(chain_list[1]) THEN FALSE
    ELSE valid_chain_from(chain_list, 1)

(* --------------------- Blockchain.resolve_conflicts -------------------- *)
\* what requests.get(.../chain, timeout=3) gives: an exception, or a response
Unreachable == [kind |-> "exception", chain |-> <<>>, status_code |-> 0, length |-> 0]
HttpError == [kind |-> "response", chain |-> <<>>, status_code |-> 500, length |-> 0]
ChainResponse(length, chain_list) ==
    [kind |-> "response", chain |-> chain_list, status_code |-> 200, length |-> length]

\* a loop that a failing request ends
RECURSIVE resolve_loop_ended_by_failure(_, _)
resolve_loop_ended_by_failure(answers, acc) ==
    IF answers = <<>> THEN acc
    ELSE LET r == Head(answers)
         IN  IF r.kind = "exception" THEN acc
             ELSE IF r.status_code = 200 /\ r.length > acc.max_length /\ valid_chain(r.chain)
             THEN resolve_loop_ended_by_failure(Tail(answers),
                                                [max_length |-> r.length, new_chain |-> r.chain])
             ELSE resolve_loop_ended_by_failure(Tail(answers), acc)

\* the for loop over the neighbours; acc holds max_length and new_chain
\* (<<>> for None)
RECURSIVE resolve_loop(_, _)
resolve_loop(answers, acc) ==
    IF answers = <<>> THEN acc
    ELSE LET r == Head(answers)
         IN  IF r.kind = "exception" THEN resolve_loop(Tail(answers), acc)
             ELSE IF r.status_code = 200 /\ r.length > acc.max_length /\ valid_chain(r.chain)
             THEN resolve_loop(Tail(answers), [max_length |-> r.length, new_chain |-> r.chain])
             ELSE resolve_loop(Tail(answers), acc)

\* the value of new_chain after the loop
resolve_conflicts(answers) ==
    resolve_loop(answers, [max_length |-> Len(chain), new_chain |-> <<>>]).new_chain

\* a replacement that resets the target instead of reading the tip
target_of_tip_reset(new_chain) == INITIAL_TARGET

\* self.current_target = self.chain[-1].get('target', INITIAL_TARGET)
target_of_tip(new_chain) == new_chain[Len(new_chain)].target

(* ----------------------------- peer chains ----------------------------- *)
PeerGenesis == Block(0, <<>>, 0, ZeroHash, PeerProof(0, ZeroHash, MAX_TARGET, 0), MAX_TARGET)
Extend(c) == Append(c, PeerBlock(c[Len(c)], <<PeerCoinbase>>, 0, MAX_TARGET))
\* c extended by a block mined under an easier target
ExtendEasy(c) == Append(c, PeerBlock(c[Len(c)], <<PeerCoinbase>>, 0, 3 * MAX_TARGET))
\* c with the nonce of its last block spoiled
SpoilLast(c) == [c EXCEPT ![Len(c)] = SpoilProof(c[Len(c)])]

PeerChains ==
    {c \in {chain, Extend(chain), Extend(<<PeerGenesis>>),
            Extend(Extend(<<PeerGenesis>>)), ExtendEasy(Extend(<<PeerGenesis>>)),
            SpoilLast(Extend(Extend(<<PeerGenesis>>)))} : Len(c) <= MaxChain + 1}

\* the answers of a peer: none, an error, its chain with its length, and a
\* response whose length field exceeds the chain it carries
Answers ==
    {Unreachable, HttpError}
    \cup {ChainResponse(Len(c), c) : c \in PeerChains}
    \cup {ChainResponse(MaxChain + 1, <<PeerGenesis>>)}

(* ---------------------------- /nodes/resolve --------------------------- *)
\* answers[i] is what the i-th neighbour of the iteration answered
consensus(answers) ==
    /\ Len(answers) = Cardinality(nodes)
    /\ sweep' = answers
    /\ LET new_chain == resolve_conflicts(answers)
       IN  IF new_chain # <<>>
           THEN /\ chain' = new_chain
                /\ current_target' = target_of_tip(new_chain)
                /\ response' = Response("consensus", 200,
                                        "Our chain was replaced by a longer valid chain.")
           ELSE /\ UNCHANGED <<chain, current_target>>
                /\ response' = Response("consensus", 200, "Our chain is authoritative.")
    /\ sent' = NoDelivery
    /\ UNCHANGED <<unconfirmed_transactions, nodes, in_flight, peer>>

(* ------------------------------ the node ------------------------------- *)
Next ==
    \/ \E values \in TxInputs : new_transaction_api(values)
    \/ \E values \in TxInputs : receive_transaction(values)
    \/ \E nodes_list \in SUBSET Peers : register_nodes(nodes_list)
    \/ \E found \in (0..MaxProof) \X Times, tr \in Times, tb \in Times : mine(found, tr, tb)
    \/ \E block_dict \in BlockInputs(last_block) : receive_block(block_dict)
    \/ \E answers \in [1..Cardinality(nodes) -> Answers] : consensus(answers)

Spec == Init /\ [][Next]_vars

(* ------------------- the node and the wallets' clients ------------------ *)
\* a client signs with the wallet of pem and posts what the wallet returned
submit_signed(pem, recipient, amount, timestamp) ==
    new_transaction_api(sign_transaction_data(pem, recipient, amount, timestamp))

\* a client changes one of the four signed values before posting
submit_altered(pem, recipient, amount, timestamp) ==
    \E values \in AlterOne(sign_transaction_data(pem, recipient, amount, timestamp)) :
        new_transaction_api(values)

\* a peer relays what a wallet returned
relay_signed(pem, recipient, amount, timestamp) ==
    receive_transaction(sign_transaction_data(pem, recipient, amount, timestamp))

NextWallet ==
    \/ \E pem \in Wallets, recipient \in Wallets, amount \in Amounts, timestamp \in Times :
            submit_signed(pem, recipient, amount, timestamp)
    \/ \E pem \in Wallets, recipient \in Wallets, amount \in Amounts, timestamp \in Times :
            submit_altered(pem, recipient, amount, timestamp)
    \/ \E pem \in Wallets, recipient \in Wallets, amount \in Amounts, timestamp \in Times :
            relay_signed(pem, recipient, amount, timestamp)
    \/ \E nodes_list \in SUBSET Peers : register_nodes(nodes_list)

SpecWallet == Init /\ [][NextWallet]_vars

(* --------------- the node and one peer that answers anything ----------- *)
\* a block on tip at the given index, mined for its own header
PeerBlockAt(index, tip, transactions, target) ==
    Block(index, transactions, 0, hash(tip), PeerProof(index, hash(tip), target, 0), target)

GenesisVariants ==
    {PeerGenesis,
     PeerBlockAt(0, PeerGenesis, <<>>, MAX_TARGET),
     Block(1, <<>>, 0, ZeroHash, PeerProof(1, ZeroHash, MAX_TARGET, 0), MAX_TARGET),
     SpoilProof(PeerGenesis),
     [PeerGenesis EXCEPT !.transactions = <<[FirstTx EXCEPT !.amount = 2]>>]}

BlockVariants(tip) ==
    LET b == PeerBlock(tip, <<PeerCoinbase>>, 0, MAX_TARGET)
    IN  {b,
         PeerBlock(tip, <<FirstTx, PeerCoinbase>>, 0, 3 * MAX_TARGET),
         PeerBlockAt(tip.index + 2, tip, <<PeerCoinbase>>, MAX_TARGET),
         SpoilProof(b),
         PeerBlock([tip EXCEPT !.proof = tip.proof + 1], <<PeerCoinbase>>, 0, MAX_TARGET),
         [b EXCEPT !.transactions = <<[FirstTx EXCEPT !.amount = 2], PeerCoinbase>>],
         [b EXCEPT !.transactions = <<PeerCoinbase, [FirstTx EXCEPT !.keys = required_fields \ {"signature"}]>>]}

\* c and every chain that extends it by at most n blocks
RECURSIVE ChainsFrom(_, _)
ChainsFrom(c, n) ==
    {c} \cup (IF n = 0 THEN {}
              ELSE UNION {ChainsFrom(Append(c, b), n - 1) : b \in BlockVariants(c[Len(c)])})

CandidateChains == {<<>>} \cup UNION {ChainsFrom(<<g>>, MaxChain) : g \in GenesisVariants}

\* every candidate comes with a length above any local chain, so that
\* valid_chain alone decides
CandidateAnswers == {ChainResponse(MaxChain + 2, c) : c \in CandidateChains}

NextValidChain ==
    \/ register_nodes({"p1:5001"})
    \/ \E answer \in CandidateAnswers : consensus(<<answer>>)

SpecValidChain == Init /\ [][NextValidChain]_vars

(* ------------------- the request threads of the node ------------------- *)
\* app.run serves every request in a thread of its own and the handlers
\* take no lock: between the two checks of add_block and its
\* self.chain.append another thread can run.  in_flight holds the calls
\* <<handler, block_dict>> that stand before the append.

\* /blocks/receive up to the append of add_block; a request that fails a
\* check ends as in receive_block
receive_block_enter(block_dict) ==
    /\ Len(chain) < MaxChain
    /\ Cardinality(in_flight) < MaxThreads
    /\ IF receive_block_verdict(block_dict) = "ok" /\ add_block_ok(block_dict)
       THEN /\ in_flight' = in_flight \cup {<<"receive_block", block_dict>>}
            /\ UNCHANGED <<chain, unconfirmed_transactions, nodes, current_target,
                           response, sent, sweep, peer>>
       ELSE receive_block(block_dict)

\* self.chain.append(block_dict) and the rest of /blocks/receive
receive_block_append(block_dict) ==
    /\ <<"receive_block", block_dict>> \in in_flight
    /\ in_flight' = in_flight \ {<<"receive_block", block_dict>>}
    /\ chain' = Append(chain, block_dict)
    /\ unconfirmed_transactions' = remove_confirmed(block_dict, TRUE)
    /\ response' = Response("receive_block", 201, "Block received and added")
    /\ sent' = NoDelivery
    /\ sweep' = <<>>
    /\ UNCHANGED <<nodes, current_target, peer>>

\* /mine up to the append of add_block; a request whose block fails a check
\* ends as in mine
mine_enter(found, tr, tb) ==
    /\ Len(chain) < MaxChain
    /\ Cardinality(in_flight) < MaxThreads
    /\ found \in proof_of_work(last_block)
    /\ found[2] <= tr /\ tr <= tb
    /\ IF add_block_ok(new_block(found[1], tr, tb))
       THEN /\ in_flight' = in_flight \cup {<<"mine", new_block(found[1], tr, tb)>>}
            /\ UNCHANGED <<chain, unconfirmed_transactions, nodes, current_target,
                           response, sent, sweep, peer>>
       ELSE mine(found, tr, tb)

\* self.chain.append(block_dict) and the rest of /mine
mine_append(block_dict) ==
    /\ <<"mine", block_dict>> \in in_flight
    /\ in_flight' = in_flight \ {<<"mine", block_dict>>}
    /\ chain' = Append(chain, block_dict)
    /\ unconfirmed_transactions' = <<>>
    /\ \E order \in Orders(nodes), down \in SUBSET nodes :
            sent' = broadcast_block(order, down)
    /\ response' = Response("mine", 200, "New Block Forged")
    /\ sweep' = <<>>
    /\ UNCHANGED <<nodes, current_target, peer>>

NextThreads ==
    \/ \E block_dict \in BlockInputs(last_block) : receive_block_enter(block_dict)
    \/ \E call \in in_flight : receive_block_append(call[2])
    \/ \E found \in (0..MaxProof) \X Times, tr \in Times, tb \in Times : mine_enter(found, tr, tb)
    \/ \E call \in in_flight : mine_append(call[2])
    \/ register_nodes({"p1:5001"})
    \/ \E answers \in [1..Cardinality(nodes) -> Answers] : consensus(answers)

SpecThreads == Init /\ [][NextThreads]_vars

(* ------------- /mine beside the transaction handlers ------------------- *)
\* /mine reads the pool when it builds current_block_transactions and
\* assigns the empty pool after add_block returned; the threads of
\* /transactions/new and /transactions/receive can run in between.
NextMempool ==
    \/ \E found \in (0..MaxProof) \X Times, tr \in Times, tb \in Times : mine_enter(found, tr, tb)
    \/ \E call \in in_flight : mine_append(call[2])
    \/ \E values \in TxInputs : new_transaction_api(values)
    \/ \E values \in TxInputs : receive_transaction(values)

SpecMempool == Init /\ [][NextMempool]_vars

(* ----------------------- the node and a second node -------------------- *)
\* Two nodes run the same code: the node (chain, current_target, nodes) and
\* a second node "p1:5001" (peer) with the node registered.  Each was
\* constructed at a reading of time() of its own.  Users submit
\* transactions to the node; both nodes mine, post their blocks to each
\* other and run /nodes/resolve against each other.  Every post and every
\* GET /chain arrives.  Of the second node only the chain and the target are
\* kept: its blocks carry the coinbase alone.

InitNetwork ==
    /\ \E t \in Times : chain = <<create_genesis_block(t)>>
    /\ \E t \in Times : peer = [chain |-> <<create_genesis_block(t)>>,
                                current_target |-> INITIAL_TARGET]
    /\ unconfirmed_transactions = <<>>
    /\ nodes = {}
    /\ current_target = INITIAL_TARGET
    /\ response = Response("start", 0, "")
    /\ sent = NoDelivery
    /\ sweep = <<>>
    /\ in_flight = {}

\* /blocks/receive of the second node: its state after block_dict arrived
peer_receive_block(block_dict) ==
    LET last_local_block == peer.chain[Len(peer.chain)]
    IN  IF /\ block_dict.index = last_local_block.index + 1
           /\ block_dict.previous_hash = hash(last_local_block)
           /\ is_valid_block_proof(block_dict)
           /\ check_transactions(block_dict.transactions) = "ok"
        THEN [peer EXCEPT !.chain = Append(peer.chain, block_dict)]
        ELSE peer

\* /mine of the node; the post of broadcast_block reaches the second node
network_mine(found, tr, tb) ==
    /\ Len(chain) < MaxChain
    /\ nodes # {}
    /\ found \in proof_of_work(last_block)
    /\ found[2] <= tr /\ tr <= tb
    /\ chain' = add_block(new_block(found[1], tr, tb))
    /\ IF ~ add_block_ok(new_block(found[1], tr, tb))
       THEN /\ response' = Response("mine", 500, "Error adding mined block locally")
            /\ sent' = NoDelivery
            /\ UNCHANGED <<unconfirmed_transactions, peer>>
       ELSE /\ unconfirmed_transactions' = <<>>
            /\ \E order \in Orders(nodes) : sent' = broadcast_block(order, {})
            /\ peer' = peer_receive_block(new_block(found[1], tr, tb))
            /\ response' = Response("mine", 200, "New Block Forged")
    /\ sweep' = <<>>
    /\ UNCHANGED <<nodes, current_target, in_flight>>

\* the block a /mine of the second node appends when its add_block accepts
peer_new_block(timestamp) ==
    PeerBlock(peer.chain[Len(peer.chain)], <<PeerCoinbase>>, timestamp, peer.current_target)

\* /mine of the second node when its add_block accepts; its post of the
\* block is a /blocks/receive of the node
peer_mine(timestamp) ==
    /\ Len(peer.chain) < MaxChain
    /\ peer' = [peer EXCEPT !.chain = Append(peer.chain, peer_new_block(timestamp))]
    /\ LET block_dict == peer_new_block(timestamp)
           verdict == receive_block_verdict(block_dict)
           added == verdict = "ok" /\ add_block_ok(block_dict)
       IN  /\ chain' = IF verdict = "ok" THEN add_block(block_dict) ELSE chain
           /\ unconfirmed_transactions' = remove_confirmed(block_dict, added)
           /\ response' = IF verdict # "ok" THEN Response("receive_block", 400, verdict)
                          ELSE IF added
                          THEN Response("receive_block", 201, "Block received and added")
                          ELSE Response("receive_block", 500,
                                        "Error adding received block locally after validation")
    /\ sent' = NoDelivery
    /\ sweep' = <<>>
    /\ UNCHANGED <<nodes, current_target, in_flight>>

\* /nodes/resolve of the node: every neighbour is the second node, which
\* answers GET /chain with its chain and the length of it
network_consensus ==
    /\ nodes # {}
    /\ consensus([i \in 1..Cardinality(nodes) |-> ChainResponse(Len(peer.chain), peer.chain)])

\* /nodes/resolve of the second node: the node answers GET /chain (full_chain)
\* with its chain and the length of it
peer_consensus ==
    /\ LET new_chain == resolve_loop(<<ChainResponse(Len(chain), chain)>>,
                                     [max_length |-> Len(peer.chain), new_chain |-> <<>>]).new_chain
       IN  peer' = IF new_chain # <<>>
                   THEN [chain |-> new_chain, current_target |-> target_of_tip(new_chain)]
                   ELSE peer
    /\ response' = Response("full_chain", 200, "")
    /\ sent' = NoDelivery
    /\ sweep' = <<>>
    /\ UNCHANGED <<chain, unconfirmed_transactions, nodes, current_target, in_flight>>

NextNetwork ==
    \/ register_nodes({"p1:5001"})
    \/ \E values \in TxInputs : new_transaction_api(values)
    \/ \E found \in (0..MaxProof) \X Times, tr \in Times, tb \in Times : network_mine(found, tr, tb)
    \/ \E timestamp \in Times : peer_mine(timestamp)
    \/ network_consensus
    \/ peer_consensus

\* the nodes are registered with each other and keep running /nodes/resolve
SpecNetwork ==
    /\ InitNetwork
    /\ [][NextNetwork]_vars
    /\ WF_vars(register_nodes({"p1:5001"}))
    /\ WF_vars(network_consensus)
    /\ WF_vars(peer_consensus)

(* --------------------- Blockchain.adjust_difficulty -------------------- *)
\* No route and no method of the program calls adjust_difficulty; the
\* action is a call of the method on the Blockchain object, and response
\* names it as the call that returned last.  Timestamps are whole seconds.

expected_time == RECALCULATION_INTERVAL * TARGET_BLOCK_TIME

\* self.chain[0] when the chain is exactly one interval long, else
\* self.chain[len(self.chain) - self.recalculation_interval]
first_block_in_interval ==
    IF Len(chain) = RECALCULATION_INTERVAL THEN chain[1]
    ELSE chain[Len(chain) - RECALCULATION_INTERVAL + 1]

\* a start of the interval one block too early
first_block_in_interval_one_early ==
    IF Len(chain) = RECALCULATION_INTERVAL THEN chain[1]
    ELSE chain[Len(chain) - RECALCULATION_INTERVAL]

\* a span taken as it is
actual_time_of_any_span == last_block.timestamp - first_block_in_interval.timestamp

\* the span of the interval; a span that is not positive is replaced by
\* expected_time
actual_time ==
    LET span == last_block.timestamp - first_block_in_interval.timestamp
    IN  IF span <= 0 THEN expected_time ELSE span

\* a product that is not held within the bounds of the factor
scaled_target_unbounded == (current_target * actual_time) \div expected_time

\* int(self.current_target * adjustment_factor), the factor being
\* actual_time / expected_time held within [1 / BOUND_DIVISOR, BOUND_DIVISOR]
scaled_target ==
    IF actual_time * BOUND_DIVISOR < expected_time THEN current_target \div BOUND_DIVISOR
    ELSE IF actual_time > BOUND_DIVISOR * expected_time THEN current_target * BOUND_DIVISOR
    ELSE (current_target * actual_time) \div expected_time

\* new_target = max(min(new_target, MAX_TARGET), 1)
new_target ==
    LET capped == IF scaled_target < MAX_TARGET THEN scaled_target ELSE MAX_TARGET
    IN  IF capped > 1 THEN capped ELSE 1

adjust_difficulty ==
    /\ current_target' = IF Len(chain) < RECALCULATION_INTERVAL THEN current_target
                         ELSE new_target
    /\ response' = Response("adjust_difficulty", 0, "")
    /\ UNCHANGED <<chain, unconfirmed_transactions, nodes, sent, sweep, in_flight, peer>>

(* ------------------- the node with a chain of some age ------------------ *)
\* The chains are a genesis block and blocks that a peer mined on it under
\* one target; the node holds such a chain, and the target of its tip as
\* current_target, after /nodes/resolve adopted it.  The block that starts
\* the interval carries the timestamp a, the tip the timestamp b.
StartStamps == {0, 100}
EndStamps == {0, 1, 50, 100, 119, 150, 175, 250, 400, 500}

DifficultyStamps(n, a, b) ==
    [i \in 1..n |-> IF i = n THEN b
                    ELSE IF i <= n - RECALCULATION_INTERVAL THEN 0 ELSE a]

RECURSIVE TimedChain(_, _, _)
TimedChain(stamps, n, target) ==
    IF n = 1 THEN <<create_genesis_block(stamps[1])>>
    ELSE LET c == TimedChain(stamps, n - 1, target)
         IN  Append(c, PeerBlock(c[n - 1], <<PeerCoinbase>>, stamps[n], target))

DifficultyChains ==
    {TimedChain(DifficultyStamps(n, a, b), n, target) :
        n \in 1..(RECALCULATION_INTERVAL + 1), a \in StartStamps, b \in EndStamps,
        target \in 1..MAX_TARGET}

InitDifficulty ==
    /\ chain \in DifficultyChains
    /\ current_target = chain[Len(chain)].target
    /\ unconfirmed_transactions = <<>>
    /\ nodes = {}
    /\ response = Response("start", 0, "")
    /\ sent = NoDelivery
    /\ sweep = <<>>
    /\ in_flight = {}
    /\ peer = NotStarted

\* /mine on a chain of at most one interval and a block
mine_on_aged_chain(found, tr, tb) ==
    /\ Len(chain) <= RECALCULATION_INTERVAL + 1
    /\ mine_request(found, tr, tb)

NextDifficulty ==
    \/ adjust_difficulty
    \/ \E found \in (0..MaxProof) \X Times, tr \in Times, tb \in Times :
            mine_on_aged_chain(found, tr, tb)

SpecDifficulty == InitDifficulty /\ [][NextDifficulty]_vars

(* -------------------------- Wallet.get_balance ------------------------- *)
\* tx.get('amount') of a dict without the key is None, which is not numeric

\* a step whose debit is taken only when there was no credit
apply_transaction_elif(tx, my_public_key_str, balance) ==
    IF "amount" \notin tx.keys THEN balance
    ELSE IF "recipient" \in tx.keys /\ tx.recipient = my_public_key_str
    THEN balance + tx.amount
    ELSE IF "sender_public_key" \in tx.keys /\ tx.sender_public_key = my_public_key_str
    THEN balance - tx.amount
    ELSE balance

\* the body of either loop for one transaction
apply_transaction(tx, my_public_key_str, balance) ==
    IF "amount" \notin tx.keys THEN balance
    ELSE LET credited == IF "recipient" \in tx.keys /\ tx.recipient = my_public_key_str
                         THEN balance + tx.amount ELSE balance
         IN  IF "sender_public_key" \in tx.keys /\ tx.sender_public_key = my_public_key_str
             THEN credited - tx.amount ELSE credited

\* for tx in transactions: ...
RECURSIVE scan_transactions(_, _, _)
scan_transactions(transactions, my_public_key_str, balance) ==
    IF transactions = <<>> THEN balance
    ELSE scan_transactions(Tail(transactions), my_public_key_str,
                           apply_transaction(Head(transactions), my_public_key_str, balance))

\* for block_data in blockchain_instance.chain: for tx in block_data.get('transactions', []): ...
RECURSIVE scan_blocks(_, _, _)
scan_blocks(chain_list, my_public_key_str, balance) ==
    IF chain_list = <<>> THEN balance
    ELSE scan_blocks(Tail(chain_list), my_public_key_str,
                     scan_transactions(Head(chain_list).transactions, my_public_key_str, balance))

get_balance(my_public_key_str) ==
    scan_transactions(unconfirmed_transactions, my_public_key_str,
                      scan_blocks(chain, my_public_key_str, 0))

\* GET /wallet/balance: the balance of the node's wallet is the body of the
\* answer; the request changes nothing
get_wallet_balance ==
    /\ response' = Response("get_wallet_balance", 200, "")
    /\ sent' = NoDelivery
    /\ sweep' = <<>>
    /\ UNCHANGED <<chain, unconfirmed_transactions, nodes, current_target, in_flight, peer>>

(* ----------------------- the node and its wallet ----------------------- *)
\* the transfers of Transfers and a transfer of PEM_A to itself
BalanceTxs == SignedTxs \cup {sign_transaction_data("PEM_A", "PEM_A", 1, 0)}

\* blocks of a peer: its reward, a reward to PEM_A whose dict has no amount,
\* and a transfer with the reward
BalanceBlocks(tip) ==
    {PeerBlock(tip, txs, 0, MAX_TARGET) :
        txs \in {<<PeerCoinbase>>,
                 <<[Coinbase("PEM_A", MiningRewardSignature)
                        EXCEPT !.keys = required_fields \ {"amount"}]>>,
                 <<FirstTx, PeerCoinbase>>}}

NextBalance ==
    \/ \E values \in BalanceTxs : new_transaction_api(values)
    \/ \E found \in (0..MaxProof) \X Times, tr \in Times, tb \in Times : mine(found, tr, tb)
    \/ \E block_dict \in BalanceBlocks(last_block) : receive_block(block_dict)
    \/ get_wallet_balance

SpecBalance == Init /\ [][NextBalance]_vars

(* ============================ properties =============================== *)
\* The words of the properties, written without the operators of the node.
\* the peers a delivery posted to
PostedTo(delivery) == {delivery.to[i] : i \in 1..Len(delivery.to)}
HeaderHash(b) == sha256_int(b.index, b.previous_hash, b.proof, b.target, b.timestamp)
Preimage(tx) == <<tx.amount, tx.recipient, tx.sender_public_key, tx.timestamp>>
\* the signature is one the key pair of sender_public_key made over the preimage
Verifies(tx) ==
    /\ tx.sender_public_key \in Wallets
    /\ tx.signature = SignatureHex(tx.sender_public_key, Digest(Preimage(tx)))
FieldsAndSignature(tx) == required_fields \subseteq tx.keys /\ Verifies(tx)
NonCoinbase(tx) == ~ ("sender_public_key" \in tx.keys /\ tx.sender_public_key = "0")
TransactionsPass(transactions) ==
    \A i \in 1..Len(transactions) :
        NonCoinbase(transactions[i]) => FieldsAndSignature(transactions[i])
FourChecks(b, tip) ==
    /\ b.index = tip.index + 1
    /\ b.previous_hash = HeaderHash(tip)
    /\ HeaderHash(b) < b.target
    /\ TransactionsPass(b.transactions)
SignaturesIn(transactions) ==
    {transactions[i].signature :
        i \in {j \in 1..Len(transactions) : "signature" \in transactions[j].keys}}
\* pool without the transactions signed by one of sigs, the order kept
RECURSIVE Without(_, _)
Without(pool, sigs) ==
    IF pool = <<>> THEN <<>>
    ELSE IF Head(pool).signature \in sigs THEN Without(Tail(pool), sigs)
    ELSE <<Head(pool)>> \o Without(Tail(pool), sigs)
Replaced(r) == r.op = "consensus" /\ r.message = "Our chain was replaced by a longer valid chain."
NotReplaced(r) == r.op = "consensus" /\ r.message = "Our chain is authoritative."

\* C1: a block posted to /blocks/receive is appended iff index, previous
\* hash, proof under its own target and the non-coinbase transactions all
\* pass against the local tip; appended, the chain grows by that one block,
\* and otherwise the chain stays as it was.
C1_ReceiveBlockAppendsIffFourChecks ==
    [][response'.op = "receive_block" =>
          \A b \in BlockInputs(last_block) :
              receive_block(b) =>
                  IF FourChecks(b, last_block)
                  THEN chain' = Append(chain, b) /\ response'.status = 201
                  ELSE chain' = chain /\ response'.status # 201]_vars

\* a block with a signed transfer was accepted on top of the genesis block
C1_Witness ==
    /\ response = Response("receive_block", 201, "Block received and added")
    /\ Len(chain) = 2
    /\ chain[2].transactions = <<FirstTx, PeerCoinbase>>

\* C2: when /blocks/receive rejects a block, the chain, the pool,
\* current_target and the peer set are what they were before the request.
C2_RejectedBlockChangesNothing ==
    [][(response'.op = "receive_block" /\ response'.status = 400) =>
          /\ chain' = chain
          /\ unconfirmed_transactions' = unconfirmed_transactions
          /\ current_target' = current_target
          /\ nodes' = nodes]_vars

\* a block was rejected for a tampered transfer whose signature is pending
C2_Witness ==
    /\ response = Response("receive_block", 400,
                           "Received block contains invalid transaction signature")
    /\ unconfirmed_transactions # <<>>
    /\ unconfirmed_transactions[1] = FirstTx
    /\ nodes # {}

\* C3: when /blocks/receive accepts a block, the pool afterwards is the
\* pool before without the transactions whose signature is in the block,
\* the others kept in their order.
C3_AcceptedBlockPrunesPool ==
    [][(response'.op = "receive_block" /\ response'.status = 201) =>
          unconfirmed_transactions' =
              Without(unconfirmed_transactions,
                      SignaturesIn(chain'[Len(chain')].transactions))]_vars

\* a block with the first transfer was accepted and another transfer is
\* still pending
C3_Witness ==
    /\ response.op = "receive_block" /\ response.status = 201
    /\ FirstTx.signature \in SignaturesIn(chain[Len(chain)].transactions)
    /\ Len(unconfirmed_transactions) = 1
    /\ unconfirmed_transactions[1] \in SignedTxs \ {FirstTx}

\* C4: /transactions/new and /transactions/receive append the transaction
\* at the end of the pool and accept iff the five fields are present and
\* the signature verifies over the four signed values; otherwise they
\* refuse and pool, chain and current_target are unchanged.
C4_TransactionAddedIffFieldsAndSignature ==
    [][response'.op \in {"new_transaction", "receive_transaction"} =>
          \A tx \in TxInputs :
              (new_transaction_api(tx) \/ receive_transaction(tx)) =>
                  IF FieldsAndSignature(tx)
                  THEN /\ response'.status = 201
                       /\ unconfirmed_transactions' = Append(unconfirmed_transactions, tx)
                  ELSE /\ response'.status = 400
                       /\ unconfirmed_transactions' = unconfirmed_transactions
                       /\ chain' = chain
                       /\ current_target' = current_target]_vars

\* a second transfer was accepted behind the first
C4_Witness ==
    /\ response.op = "new_transaction" /\ response.status = 201
    /\ Len(unconfirmed_transactions) = 2
    /\ unconfirmed_transactions[1] = FirstTx
    /\ unconfirmed_transactions[2] # FirstTx

\* C5: what a wallet signs is accepted by verify_signature and by
\* add_new_transaction, and with one of sender_public_key, recipient,
\* amount, timestamp changed after signing it is refused.
C5_SignThenVerifyRoundTrip ==
    [][response'.op \in {"new_transaction", "receive_transaction"} =>
       \A pem \in Wallets, recipient \in Wallets, amount \in Amounts, timestamp \in Times :
          LET tx == sign_transaction_data(pem, recipient, amount, timestamp)
          IN  /\ (submit_signed(pem, recipient, amount, timestamp)
                  \/ relay_signed(pem, recipient, amount, timestamp)) =>
                      /\ verify_signature(tx.sender_public_key, tx.signature,
                             create_signable_transaction_data(tx.sender_public_key,
                                 tx.recipient, tx.amount, tx.timestamp))
                      /\ response'.status = 201
                      /\ unconfirmed_transactions' = Append(unconfirmed_transactions, tx)
              /\ submit_altered(pem, recipient, amount, timestamp) =>
                      /\ \A values \in AlterOne(tx) :
                             new_transaction_api(values) =>
                                 ~ verify_signature(values.sender_public_key, values.signature,
                                       create_signable_transaction_data(
                                           values.sender_public_key, values.recipient,
                                           values.amount, values.timestamp))
                      /\ response'.status = 400
                      /\ unconfirmed_transactions' = unconfirmed_transactions]_vars

\* a transfer signed at the later wall time was accepted
C5_Witness ==
    /\ response.op = "new_transaction" /\ response.status = 201
    /\ unconfirmed_transactions # <<>>
    /\ unconfirmed_transactions[Len(unconfirmed_transactions)]
           = sign_transaction_data("PEM_B", "PEM_A", MaxAmount, MaxTime)

\* C6: /nodes/resolve replaces the chain only if a peer returned a chain
\* with more blocks than the local chain that passes valid_chain; otherwise
\* chain and current_target are unchanged and no replacement is reported.
C6_ReplacedOnlyByLongerValidChain ==
    [][response'.op = "consensus" =>
          IF \E i \in 1..Len(sweep') :
                 /\ sweep'[i].kind = "response" /\ sweep'[i].status_code = 200
                 /\ Len(sweep'[i].chain) > Len(chain)
                 /\ valid_chain(sweep'[i].chain)
          THEN TRUE
          ELSE /\ chain' = chain
               /\ current_target' = current_target
               /\ NotReplaced(response')]_vars

\* C7: after a replacement no valid chain returned in the same sweep has
\* more blocks than the chain the node ends up with.
C7_AdoptedChainIsALongest ==
    Replaced(response) =>
        \A i \in 1..Len(sweep) :
            (/\ sweep[i].kind = "response" /\ sweep[i].status_code = 200
             /\ valid_chain(sweep[i].chain))
            => Len(sweep[i].chain) <= Len(chain)

\* C8: after a replacement the local chain is one of the returned chains in
\* full, valid_chain holds of it, and current_target is the target stored
\* in its last block.
C8_ReplacementIsWholesale ==
    Replaced(response) =>
        /\ \E i \in 1..Len(sweep) :
               /\ sweep[i].kind = "response" /\ sweep[i].status_code = 200
               /\ chain = sweep[i].chain
        /\ valid_chain(chain)
        /\ current_target = chain[Len(chain)].target

\* a chain whose tip carries another target than the node had was adopted
C8_Witness ==
    /\ Replaced(response)
    /\ Len(chain) = 3
    /\ chain[3].target = 3 * MAX_TARGET
    /\ current_target # INITIAL_TARGET

\* C9: a peer that cannot be reached or answers with another status than
\* 200 is skipped: /nodes/resolve still adopts a longer valid chain that any
\* other peer returned, and a broadcast of a block or a transaction attempts
\* a delivery to every peer of the peer set.
C9_FailingPeerIsSkipped ==
    [][/\ (/\ response'.op = "consensus"
           /\ \E j \in 1..Len(sweep') :
                  sweep'[j].kind = "exception" \/ sweep'[j].status_code # 200
           /\ \E i \in 1..Len(sweep') :
                  /\ sweep'[i].kind = "response" /\ sweep'[i].status_code = 200
                  /\ sweep'[i].length > Len(chain)
                  /\ Len(sweep'[i].chain) > Len(chain)
                  /\ valid_chain(sweep'[i].chain))
          => Replaced(response')
       /\ (response'.op = "mine" /\ response'.status = 200)
          => (sent'.kind = "block" /\ PostedTo(sent') = nodes)
       /\ (response'.op = "new_transaction" /\ response'.status = 201)
          => (sent'.kind = "transaction" /\ PostedTo(sent') = nodes)]_vars

\* the first peer asked could not be reached and the chain of the second
\* was adopted
C9_Witness ==
    /\ Replaced(response)
    /\ Len(sweep) = 2
    /\ sweep[1] = Unreachable
    /\ chain = sweep[2].chain

\* C10: valid_chain holds of a candidate iff it is not empty, its first
\* block has index 0, previous_hash "0" and a header hash under its target,
\* and every later block links to the header hash of the block before it,
\* has a header hash under its target, and its non-coinbase transactions
\* have the required fields and verifying signatures.
ChainPasses(candidate) ==
    /\ candidate # <<>>
    /\ candidate[1].index = 0
    /\ candidate[1].previous_hash = ZeroHash
    /\ HeaderHash(candidate[1]) < candidate[1].target
    /\ \A i \in 2..Len(candidate) :
           /\ candidate[i].previous_hash = HeaderHash(candidate[i - 1])
           /\ HeaderHash(candidate[i]) < candidate[i].target
           /\ TransactionsPass(candidate[i].transactions)

C10_ValidChainIffChainPasses ==
    (response.op = "consensus" /\ Len(sweep) = 1 /\ sweep[1].length > MaxChain + 1) =>
        /\ valid_chain(sweep[1].chain) <=> ChainPasses(sweep[1].chain)
        /\ Replaced(response) <=> ChainPasses(sweep[1].chain)

\* a candidate of three blocks with a signed transfer in its last block
\* was found valid and adopted
C10_Witness ==
    /\ Replaced(response)
    /\ Len(sweep) = 1
    /\ Len(chain) = 3
    /\ chain[3].transactions = <<FirstTx, PeerCoinbase>>
    /\ chain[2].index = 2

\* the blocks of c carry the indices of consecutive positions
ConsecutiveIndices(c) == \A i \in 2..Len(c) : c[i].index = c[i - 1].index + 1

\* C11: every chain that valid_chain accepts has consecutive indices.
C11_ValidChainHasConsecutiveIndices ==
    \A i \in 1..Len(sweep) :
        (sweep[i].kind = "response" /\ valid_chain(sweep[i].chain))
        => ConsecutiveIndices(sweep[i].chain)

\* C12: in every state the node reaches, under any interleaving of /mine,
\* /blocks/receive and /nodes/resolve requests, the blocks of the local
\* chain carry the indices 0, 1, 2, ... of their positions.
C12_ChainIndicesCountUp ==
    \A i \in 1..Len(chain) : chain[i].index = i - 1

\* C13: in every reachable state every block after the first carries the
\* header hash of the block before it as previous_hash.
C13_ChainIsLinked ==
    \A i \in 2..Len(chain) : chain[i].previous_hash = HeaderHash(chain[i - 1])


\* C14: in every reachable state every block of the local chain, the genesis
\* block included, has its header hash strictly below its own target, so the
\* node's own chain passes valid_chain.
C14_EveryLocalBlockMeetsItsTarget ==
    /\ \A i \in 1..Len(chain) : HeaderHash(chain[i]) < chain[i].target
    /\ valid_chain(chain)


\* C15: in every reachable state every transaction of every block of the
\* local chain, block 0 included, whose sender_public_key is not "0" carries
\* a signature that verifies against its own fields, whatever peers send.
C15_EveryLocalTransactionVerifies ==
    \A i \in 1..Len(chain) :
        \A j \in 1..Len(chain[i].transactions) :
            NonCoinbase(chain[i].transactions[j]) => Verifies(chain[i].transactions[j])


\* C16: the block /mine builds has its header hash strictly below its
\* target and add_block accepts it: every /mine whose search finds a proof
\* makes the chain exactly one block longer, and that block meets its target.
C16_MineAppendsItsBlock ==
    [][response'.op = "mine" =>
          /\ Len(chain') = Len(chain) + 1
          /\ HeaderHash(chain'[Len(chain')]) < chain'[Len(chain')].target
          /\ response'.status = 200]_vars


IsReward(tx) ==
    /\ tx.sender_public_key = "0"
    /\ tx.recipient = node_identifier
    /\ tx.amount = 1
    /\ tx.signature = MiningRewardSignature

\* C17: the transactions of the block /mine appends are the pending
\* transactions at mining time, in their order, followed by exactly one
\* coinbase (sender "0", recipient the node's public key, amount 1, signature
\* "mining_reward"); with nothing pending the block holds the coinbase alone.
C17_MinedBlockIsPoolPlusOneCoinbase ==
    [][(response'.op = "mine" /\ response'.status = 200) =>
          LET txs == chain'[Len(chain')].transactions
          IN  /\ Len(txs) = Len(unconfirmed_transactions) + 1
              /\ SubSeq(txs, 1, Len(unconfirmed_transactions)) = unconfirmed_transactions
              /\ IsReward(txs[Len(txs)])
              /\ Cardinality({i \in 1..Len(txs) : txs[i].sender_public_key = "0"}) = 1]_vars
C17_Witness ==
    /\ response.op = "mine" /\ response.status = 200
    /\ Len(chain[Len(chain)].transactions) = 2
    /\ chain[Len(chain)].transactions[1] = FirstTx
    /\ IsReward(chain[Len(chain)].transactions[2])


\* C18: /mine clears the pool and sends the block only after add_block has
\* appended it: a /mine that answers 200 has appended one block, emptied the
\* pool and posted the block to every registered peer; a /mine whose append
\* fails answers with the error, keeps the pool and posts nothing.
C18_MineClearsAndSendsOnlyAfterAppend ==
    [][response'.op = "mine" =>
          IF Len(chain') = Len(chain) + 1
          THEN /\ response'.status = 200
               /\ SubSeq(chain', 1, Len(chain)) = chain
               /\ unconfirmed_transactions' = <<>>
               /\ sent'.kind = "block" /\ PostedTo(sent') = nodes
          ELSE /\ response'.status = 500
               /\ chain' = chain
               /\ unconfirmed_transactions' = unconfirmed_transactions
               /\ sent' = NoDelivery]_vars
\* a /mine whose block add_block refused, with a transaction pending and a
\* peer registered
C18_Witness ==
    /\ response.op = "mine" /\ response.status = 500
    /\ unconfirmed_transactions # <<>>
    /\ nodes # {}
    /\ sent = NoDelivery


\* C19: a transaction accepted on /transactions/new is posted exactly once
\* to each registered peer; /transactions/receive never posts anything; a
\* transaction that /transactions/new rejected is posted to nobody.
C19_TransactionsTravelOneHop ==
    [][/\ (response'.op = "new_transaction" /\ response'.status = 201)
          => /\ sent'.kind = "transaction"
             /\ PostedTo(sent') = nodes
             /\ Len(sent'.to) = Cardinality(nodes)
       /\ (response'.op = "new_transaction" /\ response'.status # 201)
          => sent' = NoDelivery
       /\ response'.op = "receive_transaction" => sent' = NoDelivery]_vars
\* an accepted /transactions/new with both peers registered
C19_Witness ==
    /\ response.op = "new_transaction" /\ response.status = 201
    /\ nodes = Peers
    /\ Len(sent.to) = 2
    /\ sent.kind = "transaction"


\* the last request the node served is neither a /mine, nor a block that the
\* second node mined, nor a submitted transaction
MiningStopped == response.op \notin {"mine", "receive_block", "new_transaction"}

\* C20: once mining and submission have stopped, nodes that have each other
\* registered and reachable and keep running resolve_conflicts eventually
\* hold the same chain, and keep holding it.
C20_NodesConverge == <>[]MiningStopped => <>[](chain = peer.chain)


\* C21: a /mine on a chain of at least RECALCULATION_INTERVAL blocks
\* retargets before its search: the current_target after the request, and
\* the target stored in the block it appended, is the value adjust_difficulty
\* computes from the span of the most recent RECALCULATION_INTERVAL blocks.
C21_MineRetargetsBeforeSearch ==
    [][(response'.op = "mine" /\ Len(chain) >= RECALCULATION_INTERVAL) =>
          /\ current_target' = new_target
          /\ Len(chain') = Len(chain) + 1 => chain'[Len(chain')].target = new_target]_vars


\* n / d rounded to the nearest integer
RoundDiv(n, d) == (2 * n + d) \div (2 * d)
Clamp(x, low, high) == IF x < low THEN low ELSE IF x > high THEN high ELSE x
\* the span of the most recent RECALCULATION_INTERVAL blocks of c
Span(c) == c[Len(c)].timestamp - c[Len(c) - RECALCULATION_INTERVAL + 1].timestamp
\* round(target * clamp(actual / expected, 1 / BOUND_DIVISOR, BOUND_DIVISOR))
RoundedProduct(target, actual, expected) ==
    IF BOUND_DIVISOR * actual < expected THEN RoundDiv(target, BOUND_DIVISOR)
    ELSE IF actual > BOUND_DIVISOR * expected THEN target * BOUND_DIVISOR
    ELSE RoundDiv(target * actual, expected)

\* C22: on a chain of at least RECALCULATION_INTERVAL blocks whose span
\* actual is positive, adjust_difficulty sets current_target to
\* clamp(round(current_target * clamp(actual / expected, 1/BOUND_DIVISOR,
\* BOUND_DIVISOR)), 1, MAX_TARGET), expected being RECALCULATION_INTERVAL *
\* TARGET_BLOCK_TIME.
C22_AdjustRoundsTheScaledTarget ==
    [][(/\ response'.op = "adjust_difficulty"
        /\ Len(chain) >= RECALCULATION_INTERVAL
        /\ Span(chain) > 0) =>
          current_target' =
              Clamp(RoundedProduct(current_target, Span(chain),
                                   RECALCULATION_INTERVAL * TARGET_BLOCK_TIME),
                    1, MAX_TARGET)]_vars


C25_TargetsWithinRange ==
    /\ 1 <= current_target /\ current_target <= MAX_TARGET
    /\ \A i \in 1..Len(chain) : 1 <= chain[i].target /\ chain[i].target <= MAX_TARGET


\* what transaction tx adds to the balance of wallet w
Effect(tx, w) ==
    IF "amount" \notin tx.keys THEN 0
    ELSE (IF "recipient" \in tx.keys /\ tx.recipient = w THEN tx.amount ELSE 0)
         - (IF "sender_public_key" \in tx.keys /\ tx.sender_public_key = w THEN tx.amount ELSE 0)
\* the sum of Effect over the first n transactions
RECURSIVE EffectOfFirst(_, _, _)
EffectOfFirst(transactions, n, w) ==
    IF n = 0 THEN 0 ELSE EffectOfFirst(transactions, n - 1, w) + Effect(transactions[n], w)
RECURSIVE EffectOfBlocks(_, _, _)
EffectOfBlocks(c, n, w) ==
    IF n = 0 THEN 0
    ELSE EffectOfBlocks(c, n - 1, w)
         + EffectOfFirst(c[n].transactions, Len(c[n].transactions), w)
Ledger(w) ==
    EffectOfBlocks(chain, Len(chain), w)
    + EffectOfFirst(unconfirmed_transactions, Len(unconfirmed_transactions), w)

\* C26: get_balance is the sum over every transaction of every block and
\* of the pool of +amount for the wallet as recipient and -amount for the
\* wallet as sender (both for a transfer to itself), transactions without a
\* numeric amount skipped; on a genesis-only chain with an empty pool it is
\* 0; every block that /mine appends raises the balance of the node's
\* wallet by exactly 1.
C26_BalanceIsTheLedgerSum ==
    [][/\ \A w \in Wallets : get_balance(w) = Ledger(w) /\ get_balance(w)' = Ledger(w)'
       /\ (Len(chain) = 1 /\ unconfirmed_transactions = <<>>)
          => \A w \in Wallets : get_balance(w) = 0
       /\ (response'.op = "mine" /\ response'.status = 200)
          => get_balance(node_identifier)' = get_balance(node_identifier) + 1]_vars
\* the balance was asked for after the node mined a block that holds the
\* transfer of PEM_A to itself, while a transfer to PEM_B is pending
C26_Witness ==
    /\ response.op = "get_wallet_balance"
    /\ \E j \in 1..Len(last_block.transactions) :
           /\ last_block.transactions[j].sender_public_key = "PEM_A"
           /\ last_block.transactions[j].recipient = "PEM_A"
    /\ unconfirmed_transactions = <<FirstTx>>
    /\ get_balance("PEM_A") = 0
    /\ get_balance("PEM_B") = 1


\* C27: in every reachable state the local chain is not empty and its first
\* block has index 0 and previous_hash "0"; the chain of a node that has
\* served no request is one block with proof 1, target INITIAL_TARGET and
\* no transactions, and its current_target is INITIAL_TARGET.
C27_ChainStartsWithAGenesisBlock ==
    /\ chain # <<>>
    /\ chain[1].index = 0
    /\ chain[1].previous_hash = ZeroHash
    /\ response.op = "start" =>
          /\ Len(chain) = 1
          /\ chain[1].proof = 1
          /\ chain[1].target = INITIAL_TARGET
          /\ chain[1].transactions = <<>>
          /\ current_target = INITIAL_TARGET
\* the chain of a peer, with a genesis block of that peer, was adopted
C27_Witness ==
    /\ response.op = "consensus"
    /\ response.message = "Our chain was replaced by a longer valid chain."
    /\ chain[1] = PeerGenesis
    /\ Len(chain) >= 2


\* C28: a step of /mine, /blocks/receive, /transactions/new or
\* /transactions/receive leaves the chain it found as a prefix of the chain
\* it leaves: blocks are added at the end, and no block and no transaction
\* list of a block changes.  Only /nodes/resolve may discard blocks.
C28_ChainIsAppendOnlyOutsideConsensus ==
    [][response'.op \in {"mine", "receive_block", "new_transaction", "receive_transaction"} =>
          /\ Len(chain') >= Len(chain)
          /\ SubSeq(chain', 1, Len(chain)) = chain]_vars
\* a /mine appended a block behind the genesis block of the node
C28_Witness ==
    /\ response.op = "mine" /\ response.status = 200
    /\ Len(chain) = 2
    /\ chain[1] = create_genesis_block(chain[1].timestamp)
    /\ chain[2].index = 1


\* C29: the hash field a block of the local chain carries is the header hash
\* recomputed from its index, timestamp, previous_hash, proof and target,
\* for mined blocks and for blocks taken from peers alike.
C29_StoredHashIsTheHeaderHash ==
    \A i \in 1..Len(chain) : chain[i].hash = HeaderHash(chain[i])


\* C30: under any interleaving of /mine with /transactions/new and
\* /transactions/receive, every transaction that is in the pool when /mine
\* clears it is in the block this /mine appended.
C30_MineLosesNoTransaction ==
    [][(response'.op = "mine" /\ response'.status = 200 /\ Len(chain') = Len(chain) + 1) =>
          \A i \in 1..Len(unconfirmed_transactions) :
              \E j \in 1..Len(chain'[Len(chain')].transactions) :
                  chain'[Len(chain')].transactions[j] = unconfirmed_transactions[i]]_vars


\* C31: the number of blocks of the local chain never decreases: /mine and
\* /blocks/receive add at most one block, and /nodes/resolve installs only a
\* chain with more blocks than the local chain has, whatever length the
\* peer reports.
C31_ChainLengthNeverDecreases ==
    [][/\ Len(chain') >= Len(chain)
       /\ response'.op \in {"mine", "receive_block"} => Len(chain') <= Len(chain) + 1]_vars


\* the places <<block, position>> of the local chain that hold a
\* transaction with its sender's signature (no coinbase)
SignedPlaces ==
    {p \in (1..Len(chain)) \X (1..(MaxPool + 2)) :
        /\ p[2] <= Len(chain[p[1]].transactions)
        /\ FieldsAndSignature(chain[p[1]].transactions[p[2]])}
SignatureAt(p) == chain[p[1]].transactions[p[2]].signature

\* C32: no replay: a signed transaction, identified by its signature, is
\* contained at most once in the blocks of the local chain, however often
\* it was submitted to /transactions/new or /transactions/receive.
C32_NoSignatureTwiceInTheChain ==
    \A p, q \in SignedPlaces : SignatureAt(p) = SignatureAt(q) => p = q


\* the signatures of the pool that a block of the local chain holds too
PendingAndMined ==
    {unconfirmed_transactions[i].signature : i \in 1..Len(unconfirmed_transactions)}
    \cap {SignatureAt(p) : p \in SignedPlaces}

\* C33: when /mine, an accepted /blocks/receive or a replacing
\* /nodes/resolve has completed, no transaction signature is both in the
\* pool and in a block of the local chain.
C33_NoSignaturePendingAndMined ==
    (\/ response.op = "mine" /\ response.status = 200
     \/ response.op = "receive_block" /\ response.status = 201
     \/ Replaced(response))
    => PendingAndMined = {}

====
